---- MODULE Spec2Model ----
(***************************************************************************)
(* Model of the EZO-EC conductivity reader (src/src/main.cpp): the line    *)
(* transport to the sensor (ezoSend / ezoReadLine / ezoQuery), the reply   *)
(* parser (parseEcLine), the operator command interpreter and the periodic *)
(* sampling driver of loop().                                              *)
(*                                                                         *)
(* Text is a sequence of ASCII codes, indexed from 0 as the Arduino String *)
(* API does.  A float is a fixed-point integer in thousandths; the inputs  *)
(* of the model carry at most three fraction digits and no exponent.       *)
(***************************************************************************)
EXTENDS Integers, Sequences, FiniteSets, TLC

(***************************************************************************)
(* Characters and text literals.                                           *)
(***************************************************************************)
Code ==
     (" " :> 32) @@ ("*" :> 42) @@ ("+" :> 43) @@ ("," :> 44) @@ ("-" :> 45)
  @@ ("." :> 46) @@ ("0" :> 48) @@ ("1" :> 49) @@ ("2" :> 50) @@ ("3" :> 51)
  @@ ("4" :> 52) @@ ("5" :> 53) @@ ("6" :> 54) @@ ("7" :> 55) @@ ("8" :> 56)
  @@ ("9" :> 57) @@ ("?" :> 63)
  @@ ("A" :> 65) @@ ("C" :> 67) @@ ("D" :> 68) @@ ("E" :> 69) @@ ("F" :> 70)
  @@ ("G" :> 71) @@ ("I" :> 73) @@ ("K" :> 75) @@ ("L" :> 76) @@ ("N" :> 78)
  @@ ("O" :> 79) @@ ("R" :> 82) @@ ("S" :> 83) @@ ("T" :> 84) @@ ("X" :> 88)
  @@ ("a" :> 97) @@ ("b" :> 98) @@ ("c" :> 99) @@ ("d" :> 100) @@ ("e" :> 101)
  @@ ("f" :> 102) @@ ("g" :> 103) @@ ("h" :> 104) @@ ("i" :> 105)
  @@ ("k" :> 107) @@ ("l" :> 108) @@ ("m" :> 109) @@ ("n" :> 110)
  @@ ("o" :> 111) @@ ("p" :> 112) @@ ("r" :> 114) @@ ("s" :> 115)
  @@ ("t" :> 116) @@ ("u" :> 117) @@ ("w" :> 119) @@ ("y" :> 121)
  @@ ("z" :> 122)

\* The text whose characters are the one-character strings of cs.
S(cs) == [i \in DOMAIN cs |-> Code[cs[i]]]

CR == 13
LF == 10
SPACE == 32
COMMA == 44

Max(a, b) == IF a >= b THEN a ELSE b
Min(a, b) == IF a <= b THEN a ELSE b

(***************************************************************************)
(* unsigned long of the AVR build: 32 bits.  The model checker's integers  *)
(* are 32-bit signed, so an unsigned long is held as the two's-complement  *)
(* integer with the same bits: 4294967295 is -1, 2147483648 is -2^31.      *)
(***************************************************************************)
MaxInt == 2147483647

\* a + b modulo 2^32.
UAdd(a, b) ==
  IF a > 0 /\ b > 0 /\ a > MaxInt - b
    THEN ((a - MaxInt) + b) - MaxInt - 2
  ELSE IF a < 0 /\ b < 0 /\ a < (-MaxInt - 1) - b
    THEN ((a + MaxInt) + b) + MaxInt + 2
  ELSE a + b

\* a - b modulo 2^32.
USub(a, b) ==
  IF a >= 0 /\ b < 0 /\ a > MaxInt + b
    THEN ((a - MaxInt) - b) - MaxInt - 2
  ELSE IF a < 0 /\ b > 0 /\ a < (-MaxInt - 1) + b
    THEN ((a + MaxInt) - b) + MaxInt + 2
  ELSE a - b

\* a < b as unsigned values.
ULt(a, b) == IF (a >= 0) = (b >= 0) THEN a < b ELSE b < 0

(***************************************************************************)
(* The Arduino String operations the program uses (positions from 0).      *)
(***************************************************************************)
\* isspace() of the C locale.
isSpace(c) == c = 32 \/ (c >= 9 /\ c <= 13)

isDigit(c) == c >= 48 /\ c <= 57

\* String::indexOf(char, fromIndex): first position >= from holding ch, or -1.
indexOf(s, ch, from) ==
  LET hits == {i \in 0..(Len(s) - 1) : i >= from /\ s[i + 1] = ch}
  IN  IF hits = {} THEN -1
      ELSE CHOOSE i \in hits : \A j \in hits : i <= j

\* String::indexOf(const String&): first position where sub occurs, or -1.
indexOfStr(s, sub) ==
  LET hits == {i \in 0..(Len(s) - Len(sub)) :
                 \A k \in 1..Len(sub) : s[i + k] = sub[k]}
  IN  IF hits = {} THEN -1
      ELSE CHOOSE i \in hits : \A j \in hits : i <= j

\* String::substring(left, right): the characters at left .. right-1.
substring(s, left, right) ==
  LET l == Min(left, right)
      r == Min(Max(left, right), Len(s))
  IN  IF l >= Len(s) THEN <<>> ELSE SubSeq(s, l + 1, r)

\* String::substring(left): from left to the end.
substringFrom(s, left) == substring(s, left, Len(s))

\* String::startsWith.
startsWith(s, prefix) ==
  /\ Len(prefix) <= Len(s)
  /\ \A k \in 1..Len(prefix) : s[k] = prefix[k]

\* String::trim: drops leading and trailing isspace characters.
trim(s) ==
  LET keep == {i \in 1..Len(s) : ~isSpace(s[i])}
  IN  IF keep = {} THEN <<>>
      ELSE SubSeq(s, CHOOSE i \in keep : \A j \in keep : i <= j,
                     CHOOSE i \in keep : \A j \in keep : i >= j)

\* String::toLowerCase.
toLowerCase(s) ==
  [i \in DOMAIN s |-> IF s[i] >= 65 /\ s[i] <= 90 THEN s[i] + 32 ELSE s[i]]

(***************************************************************************)
(* Numeric conversions.                                                    *)
(***************************************************************************)
\* Thousandths per unit of the fixed-point floats.
Scale == 10 ^ 3

\* First position (from 1) at or after i that holds no digit.
RECURSIVE DigitsEnd(_, _)
DigitsEnd(s, i) ==
  IF i <= Len(s) /\ isDigit(s[i]) THEN DigitsEnd(s, i + 1) ELSE i

\* First position (from 1) at or after i that holds no white space.
RECURSIVE SkipSpace(_, _)
SkipSpace(s, i) ==
  IF i <= Len(s) /\ isSpace(s[i]) THEN SkipSpace(s, i + 1) ELSE i

\* Value of the digits s[i] .. s[j-1].
RECURSIVE DigitsVal(_, _, _)
DigitsVal(s, i, j) ==
  IF j <= i THEN 0 ELSE DigitsVal(s, i, j - 1) * 10 + (s[j - 1] - 48)

\* String::toFloat (atof): optional white space, sign, digits, fraction; 0
\* when no number starts the text.  The result is in thousandths.
toFloat(s) ==
  LET i0   == SkipSpace(s, 1)
      neg  == i0 <= Len(s) /\ s[i0] = 45
      i1   == IF i0 <= Len(s) /\ (s[i0] = 45 \/ s[i0] = 43) THEN i0 + 1 ELSE i0
      i2   == DigitsEnd(s, i1)
      dot  == i2 <= Len(s) /\ s[i2] = 46
      i3   == IF dot THEN DigitsEnd(s, i2 + 1) ELSE i2
      nfr  == IF dot THEN Min(i3 - (i2 + 1), 3) ELSE 0
      frac == IF dot THEN DigitsVal(s, i2 + 1, i2 + 1 + nfr) * (10 ^ (3 - nfr))
              ELSE 0
      mag  == DigitsVal(s, i1, i2) * Scale + frac
      none == (i2 = i1) /\ (~dot \/ i3 = i2 + 1)
  IN  IF none THEN 0 ELSE IF neg THEN -mag ELSE mag

\* String::toInt (atol), then the cast to unsigned long (the same bits).
toIntUL(s) ==
  LET i0  == SkipSpace(s, 1)
      neg == i0 <= Len(s) /\ s[i0] = 45
      i1  == IF i0 <= Len(s) /\ (s[i0] = 45 \/ s[i0] = 43) THEN i0 + 1 ELSE i0
      i2  == DigitsEnd(s, i1)
      mag == DigitsVal(s, i1, i2)
  IN  IF neg THEN -mag ELSE mag

\* Decimal digits of the natural number n.
RECURSIVE NatStr(_)
NatStr(n) ==
  IF n < 10 THEN <<48 + n>> ELSE Append(NatStr(n \div 10), 48 + (n % 10))

\* The k low decimal digits of n, zero-padded.
RECURSIVE FracStr(_, _)
FracStr(n, k) ==
  IF k = 0 THEN <<>> ELSE Append(FracStr(n \div 10, k - 1), 48 + (n % 10))

\* dtostrf(v, 0, prec, buf): v rounded to prec decimals, no padding.
dtostrf(v, prec) ==
  LET a     == IF v < 0 THEN -v ELSE v
      unit  == 10 ^ (3 - prec)
      q     == (a + (unit \div 2)) \div unit
      whole == q \div (10 ^ prec)
      body  == NatStr(whole) \o <<46>> \o FracStr(q % (10 ^ prec), prec)
  IN  IF v < 0 THEN <<45>> \o body ELSE body

(***************************************************************************)
(* parseEcLine: the reply parser.                                          *)
(***************************************************************************)
LblEC  == S(<<"E", "C">>)
LblTDS == S(<<"T", "D", "S">>)
LblSAL == S(<<"S", "A", "L">>)
LblSG  == S(<<"S", "G">>)
AckOK  == S(<<"*", "O", "K">>)

\* The caller's float ec = 0, tds = 0, sal = 0, sg = 0.
ZeroReading == [ec |-> 0, tds |-> 0, sal |-> 0, sg |-> 0]

\* hasLabel looking for a label at the start of the line only.
hasLabelAtStart(s) ==
  \/ startsWith(s, LblEC)
  \/ startsWith(s, LblTDS)
  \/ startsWith(s, LblSAL)
  \/ startsWith(s, LblSG)

\* The test that selects the labelled format.
hasLabel(s) ==
  \/ indexOfStr(s, LblEC) # -1
  \/ indexOfStr(s, LblTDS) # -1
  \/ indexOfStr(s, LblSAL) # -1
  \/ indexOfStr(s, LblSG) # -1

\* tok == "EC" || tok == "TDS" || tok == "SAL" || tok == "SG"
isLabelTok(tok) == tok = LblEC \/ tok = LblTDS \/ tok = LblSAL \/ tok = LblSG

\* The token that starts at pos, and the position after its comma.
tokenAt(s, pos) ==
  LET c == indexOf(s, COMMA, pos)
  IN  [tok  |-> trim(IF c = -1 THEN substringFrom(s, pos)
                     ELSE substring(s, pos, c)),
       next |-> IF c = -1 THEN Len(s) ELSE c + 1]

\* storeField with ecFound set by every label.
storeFieldAnyLabel(acc, tok, f) ==
  IF tok = LblEC
    THEN [acc EXCEPT !.ec = f, !.ecFound = TRUE, !.found = @ + 1]
  ELSE IF tok = LblTDS
    THEN [acc EXCEPT !.tds = f, !.ecFound = TRUE, !.found = @ + 1]
  ELSE IF tok = LblSAL
    THEN [acc EXCEPT !.sal = f, !.ecFound = TRUE, !.found = @ + 1]
  ELSE [acc EXCEPT !.sg = f, !.ecFound = TRUE, !.found = @ + 1]

\* lec, ltds, lsal or lsg takes the value f of label tok; found++.
storeField(acc, tok, f) ==
  IF tok = LblEC
    THEN [acc EXCEPT !.ec = f, !.ecFound = TRUE, !.found = @ + 1]
  ELSE IF tok = LblTDS THEN [acc EXCEPT !.tds = f, !.found = @ + 1]
  ELSE IF tok = LblSAL THEN [acc EXCEPT !.sal = f, !.found = @ + 1]
  ELSE [acc EXCEPT !.sg = f, !.found = @ + 1]

\* The while loop of the labelled format, from position pos; acc holds lec,
\* ltds, lsal, lsg, ecFound and found.  walkToken is the loop body for the
\* token t, walkValue the body of its if for the value token v.
RECURSIVE walkLabeled(_, _, _)
RECURSIVE walkToken(_, _, _)
RECURSIVE walkValue(_, _, _, _)
walkLabeled(s, pos, acc) ==
  IF pos >= Len(s) THEN acc ELSE walkToken(s, tokenAt(s, pos), acc)

walkToken(s, t, acc) ==
  IF isLabelTok(t.tok) THEN walkValue(s, t.tok, tokenAt(s, t.next), acc)
  ELSE walkLabeled(s, t.next, acc)

walkValue(s, tok, v, acc) ==
  walkLabeled(s, v.next, storeField(acc, tok, toFloat(v.tok)))

\* Labelled format: a reading exactly when the EC label was met.
parseLabeled(s, r0) ==
  LET acc == walkLabeled(s, 0, [ec |-> 0, tds |-> 0, sal |-> 0, sg |-> 0,
                                ecFound |-> FALSE, found |-> 0])
  IN  IF acc.ecFound
        THEN [ok |-> TRUE, ec |-> acc.ec, tds |-> acc.tds,
              sal |-> acc.sal, sg |-> acc.sg]
        ELSE [ok |-> FALSE, ec |-> r0.ec, tds |-> r0.tds,
              sal |-> r0.sal, sg |-> r0.sg]

\* Unlabelled format: "ec" alone or "ec,tds,sal,sg".
parseUnlabeled(s, r0) ==
  LET p1 == indexOf(s, COMMA, 0)
      p2 == indexOf(s, COMMA, p1 + 1)
      p3 == indexOf(s, COMMA, p2 + 1)
      no == [ok |-> FALSE, ec |-> r0.ec, tds |-> r0.tds,
             sal |-> r0.sal, sg |-> r0.sg]
  IN  IF p1 = -1
        THEN [ok |-> TRUE, ec |-> toFloat(s), tds |-> 0, sal |-> 0, sg |-> 0]
      ELSE IF p2 = -1 THEN no
      ELSE IF p3 = -1 THEN no
      ELSE [ok  |-> TRUE,
            ec  |-> toFloat(substring(s, 0, p1)),
            tds |-> toFloat(substring(s, p1 + 1, p2)),
            sal |-> toFloat(substring(s, p2 + 1, p3)),
            sg  |-> toFloat(substringFrom(s, p3 + 1))]

\* parseEcLine(line, ec, tds, sal, sg): ok is the returned bool, the other
\* fields are the reference parameters after the call.
parseEcLine(line, r0) ==
  LET s  == trim(line)
      no == [ok |-> FALSE, ec |-> r0.ec, tds |-> r0.tds,
             sal |-> r0.sal, sg |-> r0.sg]
  IN  IF Len(s) = 0 THEN no
      ELSE IF startsWith(s, AckOK) THEN no
      ELSE IF hasLabel(s) THEN parseLabeled(s, r0)
      ELSE parseUnlabeled(s, r0)

(***************************************************************************)
(* The command interpreter of loop(): what one dispatched line does.       *)
(***************************************************************************)
\* Result of a branch that sends nothing: st is the session state after it.
noQuery(msg, st) ==
  [wire |-> <<>>, timeoutMs |-> 0, msg |-> msg,
   streamingEnabled |-> st.streamingEnabled,
   readPeriodMs |-> st.readPeriodMs, printRaw |-> st.printRaw]

\* Result of a branch that calls ezoQuery(wire, timeoutMs).
doQuery(wire, timeoutMs, st) ==
  [wire |-> wire, timeoutMs |-> timeoutMs, msg |-> "",
   streamingEnabled |-> st.streamingEnabled,
   readPeriodMs |-> st.readPeriodMs, printRaw |-> st.printRaw]

\* The calibration point the shortcut "cal <value>" selects.
calMode(v) ==
  IF v <= 200 * Scale THEN S(<<"l", "o", "w">>)
  ELSE IF v <= 3000 * Scale THEN S(<<"m", "i", "d">>) ELSE S(<<"h", "i", "g", "h">>)

\* The branch of verb "t".
dispatchT(rest, st) ==
  IF rest = S(<<"?">>) THEN doQuery(S(<<"T", ",", "?">>), 1200, st)
  ELSE doQuery(S(<<"T", ",">>) \o dtostrf(toFloat(rest), 2), 1200, st)

\* The shortcut "cal <value>": v is b.toFloat().
dispatchCalShortcut(v, st) ==
  doQuery(S(<<"C", "a", "l", ",">>) \o calMode(v) \o S(<<",">>) \o dtostrf(v, 2), 4000, st)

\* The if/else chain of verb "cal" on its first token b and the value val.
dispatchCalSub(b, val, st) ==
  IF b = S(<<"c", "l", "e", "a", "r">>) THEN doQuery(S(<<"C", "a", "l", ",", "c", "l", "e", "a", "r">>), 1500, st)
  ELSE IF b = S(<<"d", "r", "y">>) THEN doQuery(S(<<"C", "a", "l", ",", "d", "r", "y">>), 2000, st)
  ELSE IF b = S(<<"?">>) THEN doQuery(S(<<"C", "a", "l", ",", "?">>), 1500, st)
  ELSE IF b = S(<<"l", "o", "w">>) \/ b = S(<<"m", "i", "d">>) \/ b = S(<<"h", "i", "g", "h">>)
    THEN IF Len(val) = 0 THEN noQuery("calMissing", st)
         ELSE doQuery(S(<<"C", "a", "l", ",">>) \o b \o S(<<",">>) \o dtostrf(toFloat(val), 2),
                      4000, st)
  ELSE IF Len(b) > 0 /\ (isDigit(b[1]) \/ b[1] = 45 \/ b[1] = 43)
    THEN dispatchCalShortcut(toFloat(b), st)
  ELSE noQuery("calUnknown", st)

\* The first token (up to the space at sp2, or all) of rest.
firstToken(rest, sp2) == IF sp2 = -1 THEN rest ELSE substring(rest, 0, sp2)

\* What follows the space at sp2 in rest.
afterToken(rest, sp2) ==
  IF sp2 = -1 THEN <<>> ELSE substringFrom(rest, sp2 + 1)

\* The branch of verb "cal".
dispatchCal(rest, st) ==
  dispatchCalSub(toLowerCase(firstToken(rest, indexOf(rest, SPACE, 0))),
                 trim(afterToken(rest, indexOf(rest, SPACE, 0))), st)

\* dispatchOSub naming channel ec whatever the channel asked for.
dispatchOSubFirstChannel(ch, en, st) ==
  IF ch = S(<<"?">>) THEN doQuery(S(<<"O", ",", "?">>), 1500, st)
  ELSE IF en = -1 THEN noQuery("oUsage", st)
  ELSE IF ch = S(<<"e", "c">>) \/ ch = S(<<"t", "d", "s">>) \/ ch = S(<<"s", "a", "l">>) \/ ch = S(<<"s", "g">>)
    THEN doQuery(S(<<"O", ",", "e", "c", ",">>) \o NatStr(en), 1500, st)
  ELSE noQuery("oUnknown", st)

\* The if/else chain of verb "o" on the channel ch and the flag en.
dispatchOSub(ch, en, st) ==
  IF ch = S(<<"?">>) THEN doQuery(S(<<"O", ",", "?">>), 1500, st)
  ELSE IF en = -1 THEN noQuery("oUsage", st)
  ELSE IF ch = S(<<"e", "c">>) \/ ch = S(<<"t", "d", "s">>) \/ ch = S(<<"s", "a", "l">>) \/ ch = S(<<"s", "g">>)
    THEN doQuery(S(<<"O", ",">>) \o ch \o S(<<",">>) \o NatStr(en), 1500, st)
  ELSE noQuery("oUnknown", st)

\* int en = (onoff == "on") ? 1 : (onoff == "off" ? 0 : -1)
enableFlag(onoff) == IF onoff = S(<<"o", "n">>) THEN 1 ELSE IF onoff = S(<<"o", "f", "f">>) THEN 0 ELSE -1

\* The branch of verb "o".
dispatchO(rest, st) ==
  dispatchOSub(toLowerCase(firstToken(rest, indexOf(rest, SPACE, 0))),
               enableFlag(trim(toLowerCase(
                             afterToken(rest, indexOf(rest, SPACE, 0))))),
               st)

\* dispatchStream with "off" and "on" as toggles of the flag.
dispatchStreamToggle(lr, st) ==
  IF lr = S(<<"o", "n">>)
    THEN noQuery("streamOn",
                 [st EXCEPT !.streamingEnabled = ~st.streamingEnabled])
  ELSE IF lr = S(<<"o", "f", "f">>)
    THEN noQuery("streamOff",
                 [st EXCEPT !.streamingEnabled = ~st.streamingEnabled])
  ELSE noQuery("streamUsage", st)

\* The branch of verb "stream"; lr is rest after toLowerCase.
dispatchStream(lr, st) ==
  IF lr = S(<<"o", "n">>)
    THEN noQuery("streamOn", [st EXCEPT !.streamingEnabled = TRUE])
  ELSE IF lr = S(<<"o", "f", "f">>)
    THEN noQuery("streamOff", [st EXCEPT !.streamingEnabled = FALSE])
  ELSE noQuery("streamUsage", st)

\* dispatchPeriod without the test for 0.
dispatchPeriodAnyValue(rest, st) ==
  noQuery("periodSet", [st EXCEPT !.readPeriodMs = toIntUL(rest)])

\* The branch of verb "period".
dispatchPeriod(rest, st) ==
  IF toIntUL(rest) = 0 THEN noQuery("periodZero", st)
  ELSE noQuery("periodSet", [st EXCEPT !.readPeriodMs = toIntUL(rest)])

\* dispatchRaw with "raw on" stopping the periodic readings as well.
dispatchRawStopsStream(lr, st) ==
  IF lr = S(<<"o", "n">>)
    THEN noQuery("rawOn", [st EXCEPT !.printRaw = TRUE,
                                     !.streamingEnabled = FALSE])
  ELSE IF lr = S(<<"o", "f", "f">>)
    THEN noQuery("rawOff", [st EXCEPT !.printRaw = FALSE])
  ELSE noQuery("rawUsage", st)

\* The branch of verb "raw"; lr is rest after toLowerCase.
dispatchRaw(lr, st) ==
  IF lr = S(<<"o", "n">>) THEN noQuery("rawOn", [st EXCEPT !.printRaw = TRUE])
  ELSE IF lr = S(<<"o", "f", "f">>) THEN noQuery("rawOff", [st EXCEPT !.printRaw = FALSE])
  ELSE noQuery("rawUsage", st)

\* The branch of verb "k".
dispatchK(rest, st) ==
  IF rest = S(<<"?">>) THEN doQuery(S(<<"K", ",", "?">>), 1200, st)
  ELSE IF toFloat(rest) = 0 THEN noQuery("kUsage", st)
  ELSE doQuery(S(<<"K", ",">>) \o dtostrf(toFloat(rest), 1), 1500, st)

\* The verb and the argument tail of a command line.
splitCmd(cmd) ==
  [a    |-> toLowerCase(firstToken(cmd, indexOf(cmd, SPACE, 0))),
   rest |-> trim(afterToken(cmd, indexOf(cmd, SPACE, 0)))]

\* The if/else chain on the verb a with argument tail rest: the query to
\* issue (wire = <<>> for none), the message printed, and the session state
\* afterwards.  lr is rest in lower case.
dispatchVerb(a, rest, lr, st) ==
  IF a = S(<<"h", "e", "l", "p">>) THEN noQuery("help", st)
  ELSE IF a = S(<<"r">>) THEN doQuery(S(<<"R">>), 1000, st)
  ELSE IF a = S(<<"t">>) THEN dispatchT(rest, st)
  ELSE IF a = S(<<"c", "a", "l">>) THEN dispatchCal(rest, st)
  ELSE IF a = S(<<"o">>) THEN dispatchO(rest, st)
  ELSE IF a = S(<<"s", "t", "r", "e", "a", "m">>) THEN dispatchStream(lr, st)
  ELSE IF a = S(<<"p", "e", "r", "i", "o", "d">>) THEN dispatchPeriod(rest, st)
  ELSE IF a = S(<<"r", "a", "w">>) THEN dispatchRaw(lr, st)
  ELSE IF a = S(<<"i">>) THEN doQuery(S(<<"I">>), 1500, st)
  ELSE IF a = S(<<"s", "t", "a", "t", "u", "s">>) THEN doQuery(S(<<"S", "t", "a", "t", "u", "s">>), 1500, st)
  ELSE IF a = S(<<"l", "e", "d">>)
    THEN IF lr = S(<<"o", "n">>) THEN doQuery(S(<<"L", ",", "1">>), 1200, st)
         ELSE IF lr = S(<<"o", "f", "f">>) THEN doQuery(S(<<"L", ",", "0">>), 1200, st)
         ELSE noQuery("ledUsage", st)
  ELSE IF a = S(<<"f", "a", "c", "t", "o", "r", "y">>) THEN doQuery(S(<<"F", "a", "c", "t", "o", "r", "y">>), 2000, st)
  ELSE IF a = S(<<"s", "l", "e", "e", "p">>) THEN doQuery(S(<<"S", "l", "e", "e", "p">>), 1200, st)
  ELSE IF a = S(<<"c">>)
    THEN IF lr = S(<<"o", "n">>) THEN doQuery(S(<<"C", ",", "1">>), 1200, st)
         ELSE IF lr = S(<<"o", "f", "f">>) THEN doQuery(S(<<"C", ",", "0">>), 1200, st)
         ELSE noQuery("cUsage", st)
  ELSE IF a = S(<<"k">>) THEN dispatchK(rest, st)
  ELSE noQuery("cliUnknown", st)

\* What the dispatched line cmd does in session state st.
dispatch(cmd, st) ==
  dispatchVerb(splitCmd(cmd).a, splitCmd(cmd).rest,
               toLowerCase(splitCmd(cmd).rest), st)

(***************************************************************************)
(* Bounds of the model and the inputs of the environment.                  *)
(***************************************************************************)
\* Once loop() runs, the clock stops advancing here.
MaxTime == 2600
\* Longest unterminated operator input held in cli.
MaxCli == 1
\* Longest partial reply a query holds when a further burst arrives.
MaxPartial == 2

\* Time that passes between two iterations of loop().
TickMs == {1000}

\* Command lines the operator types: every branch of the interpreter.
Lines == {
  <<>>, S(<<"h", "e", "l", "p">>), S(<<"r">>), S(<<"t", " ", "?">>), S(<<"t", " ", "2", "5", ".", "0">>), S(<<"t">>),
  S(<<"c", "a", "l", " ", "c", "l", "e", "a", "r">>), S(<<"c", "a", "l", " ", "d", "r", "y">>), S(<<"c", "a", "l", " ", "?">>), S(<<"c", "a", "l", " ", "l", "o", "w", " ", "8", "4", ".", "0">>), S(<<"c", "a", "l", " ", "l", "o", "w">>), S(<<"c", "a", "l", " ", "1", "5", "0">>),
  S(<<"c", "a", "l", " ", "3", "0", "0", "0">>), S(<<"c", "a", "l", " ", "-", "5", "0", "0", "0">>), S(<<"c", "a", "l", " ", "z", "z">>),
  S(<<"o", " ", "?">>), S(<<"o", " ", "e", "c", " ", "o", "n">>), S(<<"o", " ", "e", "c", " ", "o", "f", "f">>), S(<<"o", " ", "e", "c">>), S(<<"o", " ", "z", "z", " ", "o", "n">>),
  S(<<"s", "t", "r", "e", "a", "m", " ", "o", "n">>), S(<<"s", "t", "r", "e", "a", "m", " ", "o", "f", "f">>), S(<<"s", "t", "r", "e", "a", "m">>), S(<<"p", "e", "r", "i", "o", "d", " ", "5", "0", "0">>), S(<<"p", "e", "r", "i", "o", "d", " ", "0">>), S(<<"p", "e", "r", "i", "o", "d", " ", "-", "1">>),
  S(<<"r", "a", "w", " ", "o", "n">>), S(<<"r", "a", "w", " ", "z", "z">>), S(<<"i">>), S(<<"s", "t", "a", "t", "u", "s">>), S(<<"l", "e", "d", " ", "o", "n">>), S(<<"l", "e", "d", " ", "o", "f", "f">>), S(<<"l", "e", "d">>),
  S(<<"f", "a", "c", "t", "o", "r", "y">>), S(<<"s", "l", "e", "e", "p">>), S(<<"c", " ", "o", "n">>), S(<<"c", " ", "o", "f", "f">>), S(<<"c">>), S(<<"k", " ", "?">>), S(<<"k", " ", "1", ".", "0">>), S(<<"k", " ", "5">>), S(<<"k">>), S(<<"z", "z">>) }

\* What the operator's terminal sends for a line: the line and '\n', or
\* another line ending.
Typed ==
  { l \o <<LF>> : l \in Lines } \cup { S(<<"r">>) \o <<CR>>, S(<<"r">>) \o <<CR, LF>> }

\* Input the operator's terminal sends with no line ending.
Fragments == { S(<<"r">>) }

\* What the sensor puts on the line in one burst; 7 is a byte of line noise.
SensorChunks == {
  S(<<"*", "O", "K">>) \o <<CR>>, S(<<"1", ".", "5">>) \o <<CR>>, S(<<"E", "C", ",", "1", ".", "5", ",", "S", "G", ",", "1">>) \o <<CR>>,
  S(<<"1", ",", "2">>) \o <<CR>>, S(<<" ", "*", "O", "K">>) \o <<CR>>, <<7>> \o S(<<"1">>), <<CR>>, S(<<"*", "O", "K">>) \o <<CR>> \o S(<<"1", ".", "5">>) \o <<CR>> }

\* Garbage the receive buffer may hold at power-up.
BootGarbage == { <<>>, S(<<"?">>) }

(***************************************************************************)
(* State.  sent, out and cmdLog tell what the last step did; resp, rxSeen  *)
(* and sawCR describe the ezoQuery call that has just returned.            *)
(***************************************************************************)
VARIABLES
  outputsConfigured,  \* bool outputsConfigured
  lastReadMs,         \* unsigned long lastReadMs
  streamingEnabled,   \* bool streamingEnabled
  readPeriodMs,       \* unsigned long readPeriodMs
  printRaw,           \* bool printRaw
  cli,                \* static String cli of loop()
  cliLastByteMs,      \* static unsigned long cliLastByteMs of loop()
  now,                \* millis()
  opRx,               \* bytes waiting in Serial
  ezoRx,              \* bytes waiting in ezoSerial
  pc,                 \* where the program is
  cfgStep,            \* queries configureOutputsOnce has issued
  q,                  \* the ezoReadLine call in progress, and its caller
  resp,               \* what the ezoQuery call returned
  sent,               \* commands the last step wrote to ezoSerial
  out,                \* what the last step printed to Serial
  cmdLog,             \* the command line the last step dispatched
  awaiting,           \* an ezoReadLine call has not returned yet
  overlap,            \* a command was written while awaiting
  rxSeen,             \* bytes the ezoReadLine call has consumed
  sawCR,              \* the ezoReadLine call returned on '\r'
  inToks,             \* tokens of the reply handed to parseEcLine
  pLine,              \* the line handed to parseEcLine
  reading             \* what parseEcLine returned

vars == <<outputsConfigured, lastReadMs, streamingEnabled, readPeriodMs,
          printRaw, cli, cliLastByteMs, now, opRx, ezoRx, pc, cfgStep, q,
          resp, sent, out, cmdLog, awaiting, overlap, rxSeen, sawCR,
          inToks, pLine, reading>>

globals == <<outputsConfigured, lastReadMs, streamingEnabled, readPeriodMs,
             printRaw>>

\* No ezoReadLine call in progress.
NoQuery == [timeoutMs |-> 0, start |-> 0, line |-> <<>>, ret |-> "none"]
\* parseEcLine not called.
NoReading == [ok |-> FALSE, ec |-> 0, tds |-> 0, sal |-> 0, sg |-> 0]

\* The globals as initialised, at the call of configureOutputsOnce in setup():
\* delay(200) has passed.
Init ==
  /\ outputsConfigured = FALSE
  /\ lastReadMs = 0
  /\ streamingEnabled = FALSE
  /\ readPeriodMs = 1000
  /\ printRaw = FALSE
  /\ cli = <<>>
  /\ cliLastByteMs = 0
  /\ now = 200
  /\ opRx = <<>>
  /\ ezoRx \in BootGarbage
  /\ pc = "setup"
  /\ cfgStep = 0
  /\ q = NoQuery
  /\ resp = <<>>
  /\ sent = <<>>
  /\ out = <<>>
  /\ cmdLog = <<>>
  /\ awaiting = FALSE
  /\ overlap = FALSE
  /\ rxSeen = <<>>
  /\ sawCR = FALSE
  /\ inToks = <<>>
  /\ pLine = <<>>
  /\ reading = NoReading

\* The step writes nothing to the sensor.
noSend == sent' = <<>>
\* The step prints nothing.
noPrint == out' = <<>>
\* The step dispatches no command line.
noCmd == cmdLog' = <<>>
\* The step is not the return of an ezoQuery call.
noReturn == resp' = <<>> /\ rxSeen' = <<>> /\ sawCR' = FALSE
\* The step does not call parseEcLine.
noParse == inToks' = <<>> /\ pLine' = <<>> /\ reading' = NoReading

(***************************************************************************)
(* Line transport: ezoSend, ezoReadLine, ezoQuery.                         *)
(***************************************************************************)
\* ezoSend: the bytes written for cmd.
ezoSend(cmd) == cmd \o <<CR>>

\* if (c >= 32 && c <= 126) line += c;
keepByte(c) == c >= 32 /\ c <= 126

\* line after the bytes of bs have been read (none of them '\r').
RECURSIVE appendKept(_, _)
appendKept(line, bs) ==
  IF bs = <<>> THEN line
  ELSE appendKept(IF keepByte(Head(bs)) THEN Append(line, Head(bs)) ELSE line,
                  Tail(bs))

\* The first lines of ezoQuery: echo the command, send it, enter ezoReadLine.
\* ret is where the caller continues.
ezoQueryBegin(cmd, timeoutMs, ret) ==
  /\ q' = [timeoutMs |-> timeoutMs, start |-> now, line |-> <<>>,
           ret |-> ret]
  /\ sent' = <<ezoSend(cmd)>>
  /\ out' = <<"send">>
  /\ overlap' = (overlap \/ awaiting)
  /\ awaiting' = TRUE
  /\ noReturn
  /\ pc' = "query"

\* The last lines of ezoQuery: ezoReadLine has returned line.
ezoQueryEnd(line) ==
  /\ resp' = line
  /\ out' = <<IF Len(line) = 0 THEN "timeoutMark" ELSE "reply">>
  /\ awaiting' = FALSE
  /\ pc' = q.ret
  /\ q' = NoQuery

\* readAvailable taking a carriage-return for any other byte.
readAvailableNoTerminator(c) ==
  /\ ezoRx' = <<>>
  /\ rxSeen' = rxSeen \o ezoRx
  /\ q' = [q EXCEPT !.line = appendKept(q.line, ezoRx)]
  /\ noPrint
  /\ UNCHANGED <<resp, awaiting, sawCR, pc>>

\* ezoReadLine, inner loop, the first '\r' of the buffer being at c (-1:
\* none): reads up to it and returns, or empties the buffer.
readAvailable(c) ==
  IF c # -1
    THEN /\ ezoRx' = substringFrom(ezoRx, c + 1)
         /\ rxSeen' = rxSeen \o substring(ezoRx, 0, c + 1)
         /\ sawCR' = TRUE
         /\ ezoQueryEnd(appendKept(q.line, substring(ezoRx, 0, c)))
    ELSE /\ ezoRx' = <<>>
         /\ rxSeen' = rxSeen \o ezoRx
         /\ q' = [q EXCEPT !.line = appendKept(q.line, ezoRx)]
         /\ noPrint
         /\ UNCHANGED <<resp, awaiting, sawCR, pc>>

\* ezoReadLine: bytes are available and the time is not up.
QueryRead ==
  /\ pc = "query"
  /\ ULt(USub(now, q.start), q.timeoutMs)
  /\ ezoRx # <<>>
  /\ readAvailable(indexOf(ezoRx, CR, 0))
  /\ noSend /\ noCmd /\ noParse
  /\ UNCHANGED <<globals, cli, cliLastByteMs, now, opRx, cfgStep, overlap>>

\* ezoReadLine giving up its partial line when the time is up.
timeoutResultEmpty(line) == <<>>

\* What ezoReadLine returns when the time is up: return line;
timeoutResult(line) == line

\* ezoReadLine, outer loop: millis() - start has reached timeoutMs.
QueryTimeout ==
  /\ pc = "query"
  /\ ~ULt(USub(now, q.start), q.timeoutMs)
  /\ ezoQueryEnd(timeoutResult(q.line))
  /\ noSend /\ noCmd /\ noParse
  /\ UNCHANGED <<globals, cli, cliLastByteMs, now, opRx, ezoRx, cfgStep,
                 overlap, rxSeen, sawCR>>

\* The busy wait of ezoReadLine: nothing arrives until the time is up.
QueryWait ==
  /\ pc = "query"
  /\ ezoRx = <<>>
  /\ ULt(USub(now, q.start), q.timeoutMs)
  /\ outputsConfigured => q.start + q.timeoutMs <= MaxTime
  /\ now' = UAdd(q.start, q.timeoutMs)
  /\ noSend /\ noPrint /\ noCmd /\ noParse
  /\ UNCHANGED <<globals, cli, cliLastByteMs, opRx, ezoRx, pc, cfgStep, q,
                 resp, awaiting, overlap, rxSeen, sawCR>>

\* The sensor puts a burst of bytes on the line while a query waits.
SensorSend(chunk) ==
  /\ pc = "query"
  /\ ULt(USub(now, q.start), q.timeoutMs)
  /\ ezoRx = <<>>
  /\ Len(q.line) < MaxPartial
  /\ ezoRx' = chunk
  /\ noSend /\ noPrint /\ noCmd /\ noParse
  /\ UNCHANGED <<globals, cli, cliLastByteMs, now, opRx, pc, cfgStep, q,
                 resp, awaiting, overlap, rxSeen, sawCR>>

(***************************************************************************)
(* configureOutputsOnce.                                                   *)
(***************************************************************************)
\* configCmds with the queries for SAL and TDS exchanged.
configCmdsExchanged == << S(<<"O", ",", "E", "C", ",", "1">>), S(<<"O", ",", "S", "A", "L", ",", "0">>), S(<<"O", ",", "T", "D", "S", ",", "0">>), S(<<"O", ",", "S", "G", ",", "0">>) >>

\* The four queries, in order.
configCmds == << S(<<"O", ",", "E", "C", ",", "1">>), S(<<"O", ",", "T", "D", "S", ",", "0">>), S(<<"O", ",", "S", "A", "L", ",", "0">>), S(<<"O", ",", "S", "G", ",", "0">>) >>

\* From the guard to the first query: flushes the receive buffer.
\* ret is where the caller continues once the outputs are configured.
configBegin(ret) ==
  /\ ezoRx' = <<>>
  /\ cfgStep' = 1
  /\ ezoQueryBegin(configCmds[1], 1200, ret)

\* setup(): the call of configureOutputsOnce.
Setup ==
  /\ pc = "setup"
  /\ configBegin("cfgSetup")
  /\ noCmd /\ noParse
  /\ UNCHANGED <<globals, cli, cliLastByteMs, now, opRx>>

\* A query of configureOutputsOnce has returned: the next one, or the end
\* (after which setup() prints the help and loop() starts).
ConfigStep ==
  /\ pc \in {"cfgSetup", "cfgLoop"}
  /\ IF cfgStep < Len(configCmds)
       THEN /\ cfgStep' = cfgStep + 1
            /\ ezoQueryBegin(configCmds[cfgStep + 1], 1200, pc)
            /\ UNCHANGED outputsConfigured
       ELSE /\ outputsConfigured' = TRUE
            /\ pc' = IF pc = "cfgSetup" THEN "loop" ELSE "cli"
            /\ out' = <<"config">>
            /\ noSend /\ noReturn
            /\ UNCHANGED <<cfgStep, q, awaiting, overlap>>
  /\ noCmd /\ noParse
  /\ UNCHANGED <<lastReadMs, streamingEnabled, readPeriodMs, printRaw, cli,
                 cliLastByteMs, now, opRx, ezoRx>>

(***************************************************************************)
(* loop().                                                                 *)
(***************************************************************************)
\* Position of the first '\n' or '\r' in bs, or -1.
firstTerminator(bs) ==
  IF indexOf(bs, LF, 0) = -1 THEN indexOf(bs, CR, 0)
  ELSE IF indexOf(bs, CR, 0) = -1 THEN indexOf(bs, LF, 0)
  ELSE Min(indexOf(bs, LF, 0), indexOf(bs, CR, 0))

\* The session state the interpreter may change.
session == [streamingEnabled |-> streamingEnabled,
            readPeriodMs |-> readPeriodMs, printRaw |-> printRaw]

\* The if/else chain has decided d for the line cmd: the session state is
\* assigned, and the query issued or the message printed.
cliDispatch(cmd, d) ==
  /\ cli' = <<>>
  /\ cmdLog' = <<cmd>>
  /\ streamingEnabled' = d.streamingEnabled
  /\ readPeriodMs' = d.readPeriodMs
  /\ printRaw' = d.printRaw
  /\ IF d.wire # <<>>
       THEN ezoQueryBegin(d.wire, d.timeoutMs, "sample")
       ELSE /\ out' = <<d.msg>>
            /\ pc' = "sample"
            /\ noSend /\ noReturn
            /\ UNCHANGED <<q, awaiting, overlap>>

\* bool idleTimeout = (cli.length() > 0) && (millis() - cliLastByteMs > 300)
idleTimeout(cli1, last1) == Len(cli1) > 0 /\ ULt(300, USub(now, last1))

\* After the read loop: cli1 is cli with the bytes read, last1 the time of
\* the last byte.  Dispatches cli1 when it is terminated or idle.
cliDecide(cli1, last1, terminated) ==
  /\ cliLastByteMs' = last1
  /\ IF Len(cli1) > 0 /\ (terminated \/ idleTimeout(cli1, last1))
       THEN cliDispatch(trim(cli1), dispatch(trim(cli1), session))
       ELSE /\ cli' = cli1
            /\ pc' = "sample"
            /\ noSend /\ noPrint /\ noCmd /\ noReturn
            /\ UNCHANGED <<streamingEnabled, readPeriodMs, printRaw, q,
                           awaiting, overlap>>

\* The bytes of opRx the read loop appends to cli, the first line ending
\* being at e (-1: none).
bytesRead(e) == IF e # -1 THEN substring(opRx, 0, e) ELSE opRx

\* The read loop with the first line ending of opRx at e (-1: none): the
\* bytes before it are appended to cli, the line ending is consumed.
cliRead(e) ==
  /\ opRx' = IF e # -1 THEN substringFrom(opRx, e + 1) ELSE <<>>
  /\ cliDecide(cli \o bytesRead(e),
               IF bytesRead(e) = <<>> THEN cliLastByteMs ELSE now,
               e # -1)

\* The block "if (Serial.available())".
cliBlock ==
  IF opRx = <<>>
    THEN /\ pc' = "sample"
         /\ noSend /\ noPrint /\ noCmd /\ noReturn
         /\ UNCHANGED <<streamingEnabled, readPeriodMs, printRaw, cli,
                        cliLastByteMs, opRx, q, awaiting, overlap>>
    ELSE cliRead(firstTerminator(opRx))

\* The program is at the top of loop(), or past the configuration there.
atLoopTop == pc = "loop" \/ pc = "cli"

\* loop() up to the periodic part: configures the outputs if that is still
\* to do, then runs the command-line block.
LoopCli ==
  /\ atLoopTop
  /\ IF pc = "loop" /\ ~outputsConfigured
       THEN /\ configBegin("cfgLoop")
            /\ noCmd
            /\ UNCHANGED <<streamingEnabled, readPeriodMs, printRaw, cli,
                           cliLastByteMs, opRx>>
       ELSE /\ cliBlock
            /\ UNCHANGED <<ezoRx, cfgStep>>
  /\ noParse
  /\ UNCHANGED <<outputsConfigured, lastReadMs, now>>

\* sampleDue without the streamingEnabled gate.
sampleDueUngated == ~ULt(USub(now, lastReadMs), readPeriodMs)

\* if (streamingEnabled && (now - lastReadMs >= readPeriodMs))
sampleDue ==
  streamingEnabled /\ ~ULt(USub(now, lastReadMs), readPeriodMs)

\* The periodic part run from a timer, wherever the program is.
atAnyPlace == pc # "setup"

\* The program is at "unsigned long now = millis();" of loop().
atSample == pc = "sample"

\* The periodic part of loop(): asks for a reading when one is due.
Sample ==
  /\ atSample
  /\ IF sampleDue
       THEN /\ lastReadMs' = now
            /\ ezoQueryBegin(S(<<"R">>), 900, "interpret")
       ELSE /\ pc' = "loop"
            /\ noSend /\ noPrint /\ noReturn
            /\ UNCHANGED <<lastReadMs, q, awaiting, overlap>>
  /\ noCmd /\ noParse
  /\ UNCHANGED <<outputsConfigured, streamingEnabled, readPeriodMs, printRaw,
                 cli, cliLastByteMs, now, opRx, ezoRx, cfgStep>>

\* What the periodic part prints for the reply line, r being the result of
\* parseEcLine on it.
interpretation(line, r) ==
  IF r.ok
    THEN <<"reading", IF indexOfStr(line, LblSG) # -1 THEN "sg" ELSE "sgNA">>
  ELSE IF startsWith(line, AckOK) THEN <<>>
  ELSE IF Len(line) = 0 THEN <<"readTimeout">>
  ELSE <<"uninterpretable">>

\* rawEcho with the dump made whatever printRaw is.
rawEchoAlways(raw) == <<"raw">>

\* if (printRaw) { Serial.print(F("[EZO] Raw: ")); Serial.println(line); }
rawEcho(raw) == IF raw THEN <<"raw">> ELSE <<>>

\* The periodic part of loop() after its query: raw echo, parse, print.
Interpret ==
  /\ pc = "interpret"
  /\ pc' = "shown"
  /\ pLine' = resp
  /\ reading' = parseEcLine(resp, ZeroReading)
  /\ inToks' = <<>>
  /\ out' = rawEcho(printRaw) \o interpretation(resp, reading')
  /\ noSend /\ noCmd /\ noReturn
  /\ UNCHANGED <<globals, cli, cliLastByteMs, now, opRx, ezoRx, cfgStep, q,
                 awaiting, overlap>>

\* loop() returns after a periodic reading.
LoopEnd ==
  /\ pc = "shown"
  /\ pc' = "loop"
  /\ noSend /\ noPrint /\ noCmd /\ noReturn /\ noParse
  /\ UNCHANGED <<globals, cli, cliLastByteMs, now, opRx, ezoRx, cfgStep, q,
                 awaiting, overlap>>

(***************************************************************************)
(* The environment of loop(): the clock and the operator.                  *)
(***************************************************************************)
\* Time passes between two iterations; loop() polls faster than anyone types.
Tick(d) ==
  /\ pc = "loop"
  /\ opRx = <<>>
  /\ now + d <= MaxTime
  /\ now' = UAdd(now, d)
  /\ noSend /\ noPrint /\ noCmd /\ noReturn /\ noParse
  /\ UNCHANGED <<globals, cli, cliLastByteMs, opRx, ezoRx, pc, cfgStep, q,
                 awaiting, overlap>>

\* The operator sends a line with its line ending.
OperatorLine(typed) ==
  /\ pc = "loop"
  /\ opRx = <<>>
  /\ opRx' = typed
  /\ noSend /\ noPrint /\ noCmd /\ noReturn /\ noParse
  /\ UNCHANGED <<globals, cli, cliLastByteMs, now, ezoRx, pc, cfgStep, q,
                 awaiting, overlap>>

\* The operator's terminal sends input without a line ending.
OperatorFragment(frag) ==
  /\ pc = "loop"
  /\ opRx = <<>>
  /\ Len(cli) + Len(frag) <= MaxCli
  /\ opRx' = frag
  /\ noSend /\ noPrint /\ noCmd /\ noReturn /\ noParse
  /\ UNCHANGED <<globals, cli, cliLastByteMs, now, ezoRx, pc, cfgStep, q,
                 awaiting, overlap>>

Next ==
  \/ Setup
  \/ ConfigStep
  \/ LoopCli
  \/ Sample
  \/ Interpret
  \/ LoopEnd
  \/ QueryRead
  \/ QueryTimeout
  \/ QueryWait
  \/ \E chunk \in SensorChunks : SensorSend(chunk)
  \/ \E d \in TickMs : Tick(d)
  \/ \E typed \in Typed : OperatorLine(typed)
  \/ \E frag \in Fragments : OperatorFragment(frag)

Spec == Init /\ [][Next]_vars

(***************************************************************************)
(* parseEcLine on its own: the reply is drawn from two families, and one   *)
(* step parses it.                                                         *)
(***************************************************************************)
\* Longest reply of the free family, in tokens.
MaxTokens == 5

Labels == {LblEC, LblTDS, LblSAL, LblSG}

\* Value tokens of the labelled family.
Values == { S(<<"1", ".", "5">>), S(<<" ", "2">>), <<>> }

\* Tokens of the free family.
FreeTokens == { S(<<"1", ".", "5">>), S(<<"2">>), <<>>, LblEC, LblSG, S(<<"X", "E", "C">>), S(<<"*", "O", "K">>) }

\* Labelled replies: some labels, each once, in any order, each before its
\* value.
LabeledReplies ==
  UNION { { [i \in 1..(2 * k) |->
              IF i % 2 = 1 THEN ls[(i + 1) \div 2] ELSE vs[i \div 2]] :
            ls \in {f \in [1..k -> Labels] :
                      \A a, b \in 1..k : a # b => f[a] # f[b]},
            vs \in [1..k -> Values] } : k \in 1..Cardinality(Labels) }

\* Replies of up to MaxTokens tokens.
FreeReplies == UNION { [1..n -> FreeTokens] : n \in 1..MaxTokens }

\* The line whose comma-separated tokens are toks.
RECURSIVE Join(_)
Join(toks) ==
  IF Len(toks) = 0 THEN <<>>
  ELSE IF Len(toks) = 1 THEN toks[1]
  ELSE toks[1] \o <<COMMA>> \o Join(Tail(toks))

InitParse ==
  /\ outputsConfigured = TRUE
  /\ lastReadMs = 0
  /\ streamingEnabled = TRUE
  /\ readPeriodMs = 1000
  /\ printRaw = FALSE
  /\ cli = <<>>
  /\ cliLastByteMs = 0
  /\ now = 1200
  /\ opRx = <<>>
  /\ ezoRx = <<>>
  /\ pc = "parse"
  /\ cfgStep = Len(configCmds)
  /\ q = NoQuery
  /\ resp = <<>>
  /\ sent = <<>>
  /\ out = <<>>
  /\ cmdLog = <<>>
  /\ awaiting = FALSE
  /\ overlap = FALSE
  /\ rxSeen = <<>>
  /\ sawCR = FALSE
  /\ inToks \in LabeledReplies \cup FreeReplies
  /\ pLine = Join(inToks)
  /\ reading = NoReading

\* The call parseEcLine(line, ec, tds, sal, sg) with ec = tds = sal = sg = 0.
ParseLine ==
  /\ pc = "parse"
  /\ pc' = "parsed"
  /\ reading' = parseEcLine(pLine, ZeroReading)
  /\ UNCHANGED <<globals, cli, cliLastByteMs, now, opRx, ezoRx, cfgStep, q,
                 resp, sent, out, cmdLog, awaiting, overlap, rxSeen, sawCR,
                 inToks, pLine>>

NextParse == ParseLine

SpecParse == InitParse /\ [][NextParse]_vars

(***************************************************************************)
(* The command interpreter on sequences of command lines: the lines of     *)
(* inToks are dispatched one after the other, each query having returned   *)
(* before the next line is read.                                           *)
(***************************************************************************)
\* Number of command lines dispatched in a row.
MaxCmds == 2

\* The command lines: verb "o" on every channel, the verbs that change the
\* session state, and one that only queries.
CmdLines ==
  { S(<<"o", " ", "e", "c", " ", "o", "n">>), S(<<"o", " ", "e", "c", " ", "o", "f", "f">>), S(<<"o", " ", "t", "d", "s", " ", "o", "n">>), S(<<"o", " ", "t", "d", "s", " ", "o", "f", "f">>), S(<<"o", " ", "s", "a", "l", " ", "o", "n">>), S(<<"o", " ", "s", "a", "l", " ", "o", "f", "f">>),
    S(<<"o", " ", "s", "g", " ", "o", "n">>), S(<<"o", " ", "s", "g", " ", "o", "f", "f">>), S(<<"o", " ", "E", "C", " ", "o", "n">>), S(<<"o", " ", "e", "c", " ", "O", "F", "F">>), S(<<"s", "t", "r", "e", "a", "m", " ", "o", "n">>), S(<<"s", "t", "r", "e", "a", "m", " ", "o", "f", "f">>),
    S(<<"s", "t", "r", "e", "a", "m", " ", "O", "F", "F">>), S(<<"s", "t", "r", "e", "a", "m">>), S(<<"r", "a", "w", " ", "o", "n">>), S(<<"r", "a", "w", " ", "o", "f", "f">>), S(<<"p", "e", "r", "i", "o", "d", " ", "5", "0", "0">>), S(<<"p", "e", "r", "i", "o", "d", " ", "0">>),
    S(<<"r">>), S(<<"z", "z">>) }

\* Values readPeriodMs has when the lines are typed.
Periods == { 1000, 500 }

InitCmd ==
  /\ outputsConfigured = TRUE
  /\ lastReadMs = 0
  /\ streamingEnabled \in BOOLEAN
  /\ readPeriodMs \in Periods
  /\ printRaw \in BOOLEAN
  /\ cli = <<>>
  /\ cliLastByteMs = 0
  /\ now = 1200
  /\ opRx = <<>>
  /\ ezoRx = <<>>
  /\ pc = "cmd"
  /\ cfgStep = Len(configCmds)
  /\ q = NoQuery
  /\ resp = <<>>
  /\ sent = <<>>
  /\ out = <<>>
  /\ cmdLog = <<>>
  /\ awaiting = FALSE
  /\ overlap = FALSE
  /\ rxSeen = <<>>
  /\ sawCR = FALSE
  /\ inToks \in [1..MaxCmds -> CmdLines]
  /\ pLine = <<>>
  /\ reading = NoReading

\* The if/else chain has decided d for the line cmd: the session state is
\* assigned; sent and out gain the command sent or the message printed.
cmdApply(cmd, d) ==
  /\ cmdLog' = Append(cmdLog, cmd)
  /\ streamingEnabled' = d.streamingEnabled
  /\ readPeriodMs' = d.readPeriodMs
  /\ printRaw' = d.printRaw
  /\ sent' = IF d.wire # <<>> THEN Append(sent, ezoSend(d.wire)) ELSE sent
  /\ out' = Append(out, IF d.wire # <<>> THEN "send" ELSE d.msg)

\* The next line of inToks is dispatched.
DispatchLine ==
  /\ pc = "cmd"
  /\ Len(cmdLog) < Len(inToks)
  /\ cmdApply(trim(inToks[Len(cmdLog) + 1]),
              dispatch(trim(inToks[Len(cmdLog) + 1]), session))
  /\ UNCHANGED <<outputsConfigured, lastReadMs, cli, cliLastByteMs, now,
                 opRx, ezoRx, pc, cfgStep, q, resp, awaiting, overlap,
                 rxSeen, sawCR, inToks, pLine, reading>>

NextCmd == DispatchLine

SpecCmd == InitCmd /\ [][NextCmd]_vars

(***************************************************************************)
(* One ezoQuery call against a sensor that keeps sending: the line runs at *)
(* 9600 baud, so every burst takes time, and the call is followed to its   *)
(* return.                                                                 *)
(***************************************************************************)
\* Time a burst of the sensor takes on the line, in ms.
BurstMs == 300

\* The ezoQuery calls of the program once loop() runs: timeout and caller.
QueryCalls ==
  { [timeoutMs |-> 900, ret |-> "interpret"],
    [timeoutMs |-> 1000, ret |-> "sample"],
    [timeoutMs |-> 1200, ret |-> "sample"],
    [timeoutMs |-> 1500, ret |-> "sample"] }

\* Bytes an earlier query left unread.
Leftovers == { <<>>, S(<<"1", ".", "5">>) \o <<CR>>, S(<<"*", "O">>) }

InitQuery ==
  /\ outputsConfigured = TRUE
  /\ lastReadMs = 1000
  /\ streamingEnabled = TRUE
  /\ readPeriodMs = 1000
  /\ printRaw \in BOOLEAN
  /\ cli = <<>>
  /\ cliLastByteMs = 0
  /\ now = 1000
  /\ opRx = <<>>
  /\ ezoRx \in Leftovers
  /\ pc = "query"
  /\ cfgStep = Len(configCmds)
  /\ \E c \in QueryCalls :
       q = [timeoutMs |-> c.timeoutMs, start |-> 1000, line |-> <<>>,
            ret |-> c.ret]
  /\ resp = <<>>
  /\ sent = << ezoSend(S(<<"R">>)) >>
  /\ out = <<"send">>
  /\ cmdLog = <<>>
  /\ awaiting = TRUE
  /\ overlap = FALSE
  /\ rxSeen = <<>>
  /\ sawCR = FALSE
  /\ inToks = <<>>
  /\ pLine = <<>>
  /\ reading = NoReading

\* The sensor puts a burst on the line; the burst takes BurstMs, or what is
\* left of the query's time.
SensorStream(chunk) ==
  /\ pc = "query"
  /\ ULt(USub(now, q.start), q.timeoutMs)
  /\ ezoRx = <<>>
  /\ ezoRx' = chunk
  /\ now' = UAdd(now, Min(BurstMs,
                          USub(UAdd(q.start, q.timeoutMs), now)))
  /\ noSend /\ noPrint /\ noCmd /\ noParse
  /\ UNCHANGED <<globals, cli, cliLastByteMs, opRx, pc, cfgStep, q, resp,
                 awaiting, overlap, rxSeen, sawCR>>

\* The steps of ezoReadLine.
QueryStep == QueryRead \/ QueryTimeout \/ QueryWait

NextQuery ==
  \/ QueryRead
  \/ QueryTimeout
  \/ QueryWait
  \/ \E chunk \in SensorChunks : SensorStream(chunk)

SpecQuery == InitQuery /\ [][NextQuery]_vars

\* The processor keeps executing ezoReadLine.
FairQuery == SpecQuery /\ WF_vars(QueryStep)

(***************************************************************************)
(* Properties.                                                             *)
(***************************************************************************)
Abs(v) == IF v < 0 THEN -v ELSE v

\* The last step dispatched the command line cmdLog[1].
Dispatched == cmdLog # <<>>

\* The last step was the return of an ezoQuery call.
Returned == out = <<"timeoutMark">> \/ out = <<"reply">>

\* The printable characters of bs, the carriage-returns apart.
PrintableOf(bs) == SelectSeq(bs, LAMBDA c : c \in 32..126)

\* The step dispatches a "period" command whose argument evaluates to 0.
ZeroPeriodStep ==
  /\ cmdLog' # <<>>
  /\ splitCmd(cmdLog'[1]).a = S(<<"p", "e", "r", "i", "o", "d">>)
  /\ toIntUL(splitCmd(cmdLog'[1]).rest) = 0

\* C1: readPeriodMs is strictly positive in every reachable state, and a
\* "period" command whose argument evaluates to 0 is rejected: it prints the
\* corrective message and leaves readPeriodMs at its prior value.
C1_PeriodPositive ==
  /\ [](ULt(0, readPeriodMs))
  /\ [][ZeroPeriodStep =>
          /\ readPeriodMs' = readPeriodMs
          /\ out' = <<"periodZero">>
          /\ sent' = <<>>]_vars

\* "period 0" has been rejected after the period had been set to 500.
C1_Witness ==
  /\ cmdLog = << S(<<"p", "e", "r", "i", "o", "d", " ", "0">>) >>
  /\ out = <<"periodZero">>
  /\ readPeriodMs = 500

\* C2: at most one sensor query is outstanding: no command is written to the
\* sensor while an earlier ezoReadLine call has not returned, whoever issues
\* it (configuration, command dispatch, periodic sampling).
C2_OneQueryAtATime ==
  /\ ~overlap
  /\ awaiting <=> pc = "query"
  /\ Len(sent) <= 1

\* A periodic query is outstanding, after those of the configuration.
C2_Witness ==
  /\ awaiting
  /\ q.ret = "interpret"
  /\ outputsConfigured
  /\ sent = << ezoSend(S(<<"R">>)) >>

\* C3 as stated: when the time is up before a carriage-return was read,
\* ezoReadLine returns the empty string whatever bytes were received, and the
\* echo of ezoQuery shows the timeout marker.
C3_EmptyOnTimeout ==
  (Returned /\ ~sawCR) => (resp = <<>> /\ out = <<"timeoutMark">>)

\* C3, amended: ezoReadLine returns the printable bytes it has read, also
\* when the time is up before a carriage-return; the echo shows the timeout
\* marker exactly when that text is empty.
C3_TimeoutReturnsAccumulated ==
  Returned =>
    /\ resp = PrintableOf(rxSeen)
    /\ sawCR <=> (rxSeen # <<>> /\ rxSeen[Len(rxSeen)] = CR)
    /\ \A i \in 1..(Len(rxSeen) - 1) : rxSeen[i] # CR
    /\ (out = <<"timeoutMark">>) <=> (resp = <<>>)

\* The time was up with no carriage-return read, and text is returned.
C3_Witness ==
  /\ Returned
  /\ ~sawCR
  /\ resp # <<>>
  /\ out = <<"reply">>

\* The step runs the operator part of loop() from its top to its end.
CliPass == atLoopTop /\ ~atLoopTop'

\* C4: input without line ending that has been quiet for more than 300 ms is
\* dispatched by the control loop without a further byte having to arrive:
\* an iteration of loop() that finds such input, and no byte to read,
\* dispatches it.
C4_IdleInputDispatched ==
  [][(/\ CliPass
      /\ cli # <<>>
      /\ opRx = <<>>
      /\ ULt(300, USub(now, cliLastByteMs)))
       => (cli' = <<>> /\ cmdLog' = <<cli>>)]_vars

\* Verbs that need an argument.
ArgVerbs == { S(<<"t">>), S(<<"c", "a", "l">>), S(<<"o">>), S(<<"s", "t", "r", "e", "a", "m">>), S(<<"p", "e", "r", "i", "o", "d">>), S(<<"r", "a", "w">>), S(<<"l", "e", "d">>), S(<<"c">>), S(<<"k">>) }
\* Verbs without one.
PlainVerbs == { S(<<"h", "e", "l", "p">>), S(<<"r">>), S(<<"i">>), S(<<"s", "t", "a", "t", "u", "s">>), S(<<"f", "a", "c", "t", "o", "r", "y">>), S(<<"s", "l", "e", "e", "p">>) }

\* The command line is malformed: a verb without its argument, an unknown
\* verb, an unknown output channel, a zero period.
Malformed(cmd) ==
  \/ splitCmd(cmd).a \in ArgVerbs /\ splitCmd(cmd).rest = <<>>
  \/ splitCmd(cmd).a \notin ArgVerbs \cup PlainVerbs
  \/ /\ splitCmd(cmd).a = S(<<"o">>)
     /\ splitCmd(splitCmd(cmd).rest).a \notin { S(<<"e", "c">>), S(<<"t", "d", "s">>), S(<<"s", "a", "l">>), S(<<"s", "g">>), S(<<"?">>) }
  \/ /\ splitCmd(cmd).a = S(<<"p", "e", "r", "i", "o", "d">>)
     /\ toIntUL(splitCmd(cmd).rest) = 0

\* The corrective messages.
UsageMessages ==
  { "calMissing", "calUnknown", "oUsage", "oUnknown", "streamUsage",
    "periodZero", "rawUsage", "ledUsage", "cUsage", "kUsage", "cliUnknown",
    "tUsage" }

\* C5: every malformed command is rejected: a corrective message is printed,
\* nothing is sent to the sensor, and streamingEnabled, readPeriodMs and
\* printRaw keep their values.
C5_MalformedRejected ==
  [][(cmdLog' # <<>> /\ Malformed(cmdLog'[1])) =>
       /\ sent' = <<>>
       /\ Len(out') = 1 /\ out'[1] \in UsageMessages
       /\ streamingEnabled' = streamingEnabled
       /\ readPeriodMs' = readPeriodMs
       /\ printRaw' = printRaw]_vars

\* The first argument token of the dispatched "cal" command is a bare number.
BareCal ==
  /\ Dispatched
  /\ splitCmd(cmdLog[1]).a = S(<<"c", "a", "l">>)
  /\ splitCmd(cmdLog[1]).rest # <<>>
  /\ LET c == splitCmd(cmdLog[1]).rest[1]
     IN  isDigit(c) \/ c = 43 \/ c = 45

\* The number of the bare "cal" command, in thousandths.
BareValue == toFloat(splitCmd(splitCmd(cmdLog[1]).rest).a)

\* C8: a bare "cal <v>" issues exactly one command "Cal,<mode>,<v>", the mode
\* chosen by the magnitude of v: low up to 200, mid up to 3000, high above.
C8_CalByMagnitude ==
  BareCal =>
    sent = << S(<<"C", "a", "l", ",">>)
              \o (IF Abs(BareValue) <= 200 * Scale THEN S(<<"l", "o", "w">>)
                  ELSE IF Abs(BareValue) <= 3000 * Scale THEN S(<<"m", "i", "d">>)
                  ELSE S(<<"h", "i", "g", "h">>))
              \o S(<<",">>) \o dtostrf(BareValue, 2) \o <<CR>> >>

\* C9: as the help text says, a bare "cal <v>" uses the mid point: it issues
\* "Cal,mid,<v>".
C9_CalShortcutMid ==
  BareCal => sent = << S(<<"C", "a", "l", ",", "m", "i", "d", ",">>) \o dtostrf(BareValue, 2) \o <<CR>> >>

\* A decimal number: optional sign, digits, optional fraction.
IsFloatText(s) ==
  LET i1 == IF s # <<>> /\ s[1] = 45 THEN 2 ELSE 1
      i2 == DigitsEnd(s, i1)
  IN  /\ i2 > i1
      /\ \/ i2 = Len(s) + 1
         \/ /\ s[i2] = 46
            /\ i2 + 1 <= Len(s)
            /\ DigitsEnd(s, i2 + 1) = Len(s) + 1

\* The commands of the wire protocol that have no free part.
WireLiterals ==
  { S(<<"R">>), S(<<"T", ",", "?">>), S(<<"C", "a", "l", ",", "c", "l", "e", "a", "r">>), S(<<"C", "a", "l", ",", "d", "r", "y">>), S(<<"C", "a", "l", ",", "?">>), S(<<"O", ",", "?">>), S(<<"I">>), S(<<"S", "t", "a", "t", "u", "s">>),
    S(<<"L", ",", "0">>), S(<<"L", ",", "1">>), S(<<"F", "a", "c", "t", "o", "r", "y">>), S(<<"S", "l", "e", "e", "p">>), S(<<"C", ",", "0">>), S(<<"C", ",", "1">>), S(<<"K", ",", "0", ".", "1">>), S(<<"K", ",", "1", ".", "0">>),
    S(<<"K", ",", "1", "0", ".", "0">>), S(<<"K", ",", "?">>), S(<<"O", ",", "E", "C", ",", "0">>), S(<<"O", ",", "E", "C", ",", "1">>), S(<<"O", ",", "T", "D", "S", ",", "0">>), S(<<"O", ",", "T", "D", "S", ",", "1">>), S(<<"O", ",", "S", "A", "L", ",", "0">>),
    S(<<"O", ",", "S", "A", "L", ",", "1">>), S(<<"O", ",", "S", "G", ",", "0">>), S(<<"O", ",", "S", "G", ",", "1">>) }

\* body is a command of the wire protocol.
WireForm(body) ==
  \/ body \in WireLiterals
  \/ startsWith(body, S(<<"T", ",">>)) /\ IsFloatText(substringFrom(body, 2))
  \/ \E m \in { S(<<"C", "a", "l", ",", "l", "o", "w", ",">>), S(<<"C", "a", "l", ",", "m", "i", "d", ",">>), S(<<"C", "a", "l", ",", "h", "i", "g", "h", ",">>) } :
       startsWith(body, m) /\ IsFloatText(substringFrom(body, Len(m)))

\* C10: every command written to the sensor is one of the case-sensitive
\* forms of the wire protocol, followed by exactly one carriage-return.
C10_WireProtocol ==
  \A i \in DOMAIN sent :
    /\ Len(sent[i]) >= 2
    /\ sent[i][Len(sent[i])] = CR
    /\ WireForm(SubSeq(sent[i], 1, Len(sent[i]) - 1))

(***************************************************************************)
(* Properties of parseEcLine.                                              *)
(***************************************************************************)
\* parseEcLine has been called on the tokens of inToks.
Parsed == pc = "parsed"

\* inToks is a labelled reply: labels, each once, each before its value.
IsLabeledReply ==
  /\ Len(inToks) > 0
  /\ Len(inToks) % 2 = 0
  /\ \A i \in DOMAIN inToks :
       IF i % 2 = 1 THEN inToks[i] \in Labels ELSE trim(inToks[i]) \notin Labels
  /\ \A i, j \in DOMAIN inToks :
       (i % 2 = 1 /\ j % 2 = 1 /\ i # j) => inToks[i] # inToks[j]

\* The value after label lbl in inToks, 0 when the label is absent.
ValueOf(lbl) ==
  IF \E i \in DOMAIN inToks : i % 2 = 1 /\ inToks[i] = lbl
    THEN toFloat(inToks[1 + CHOOSE i \in DOMAIN inToks :
                               i % 2 = 1 /\ inToks[i] = lbl])
    ELSE 0

\* C6: a labelled reply parses exactly when it carries the EC label; then
\* every field has the value after its label, and 0 when its label is absent.
C6_LabeledParse ==
  (Parsed /\ IsLabeledReply) =>
    /\ reading.ok <=> (\E i \in DOMAIN inToks : i % 2 = 1 /\ inToks[i] = LblEC)
    /\ reading.ok =>
         /\ reading.ec = ValueOf(LblEC)
         /\ reading.tds = ValueOf(LblTDS)
         /\ reading.sal = ValueOf(LblSAL)
         /\ reading.sg = ValueOf(LblSG)

\* Four labels in an order other than the usual one have been parsed.
C6_Witness ==
  /\ Parsed
  /\ IsLabeledReply
  /\ Len(inToks) = 8
  /\ inToks[1] = LblSG
  /\ inToks[7] = LblEC
  /\ reading.ok
  /\ reading.ec = 1500
  /\ reading.sg = 2000

\* inToks is an unlabelled reply: not empty, no acknowledgement, no label.
IsUnlabeledReply ==
  /\ trim(pLine) # <<>>
  /\ ~startsWith(trim(pLine), AckOK)
  /\ \A i \in DOMAIN inToks, lbl \in Labels : indexOfStr(inToks[i], lbl) = -1

\* C7: an unlabelled reply is a reading exactly when it has no comma (EC is
\* the line) or three commas (EC, TDS, SAL, SG by position).
C7_UnlabeledArity ==
  (Parsed /\ IsUnlabeledReply) =>
    /\ reading.ok <=> (Len(inToks) = 1 \/ Len(inToks) = 4)
    /\ (reading.ok /\ Len(inToks) = 1) =>
         reading = [ok |-> TRUE, ec |-> toFloat(trim(pLine)), tds |-> 0,
                    sal |-> 0, sg |-> 0]
    /\ (reading.ok /\ Len(inToks) = 4) =>
         reading = [ok |-> TRUE, ec |-> toFloat(inToks[1]),
                    tds |-> toFloat(inToks[2]), sal |-> toFloat(inToks[3]),
                    sg |-> toFloat(inToks[4])]

\* The step is the periodic part of loop().
PeriodicPass == pc = "sample" /\ pc' # "sample"

\* The step issues the query of the periodic part.
PeriodicQuery == q.ret # "interpret" /\ q'.ret = "interpret"

\* C13: the periodic part issues its "R" query exactly in the iterations
\* where streamingEnabled is true and at least readPeriodMs ms (unsigned
\* difference) have passed since lastReadMs, and sets lastReadMs to the
\* current time as it does; no periodic query is issued elsewhere or while
\* streaming is off, and lastReadMs is the time of the last periodic query,
\* so that two of them in a row are at least readPeriodMs apart.
C13_SamplingGated ==
  /\ [][PeriodicPass =>
          IF streamingEnabled /\ ~ULt(USub(now, lastReadMs), readPeriodMs)
            THEN /\ PeriodicQuery
                 /\ sent' = << ezoSend(S(<<"R">>)) >>
                 /\ lastReadMs' = now
            ELSE /\ ~PeriodicQuery
                 /\ sent' = <<>>
                 /\ lastReadMs' = lastReadMs]_vars
  /\ [][PeriodicQuery => (PeriodicPass /\ streamingEnabled)]_vars
  /\ [][lastReadMs' # lastReadMs => PeriodicQuery]_vars
  /\ [](q.ret = "interpret" => (lastReadMs = q.start /\ streamingEnabled))

\* A periodic query is outstanding, its period set by the operator and
\* an earlier query made more than 500 ms before.
C13_Witness ==
  /\ pc = "query"
  /\ q.ret = "interpret"
  /\ sent = << ezoSend(S(<<"R">>)) >>
  /\ readPeriodMs = 500
  /\ lastReadMs = now
  /\ now >= 2200

\* Some comma-separated token of s, trimmed, is the label lbl.
RECURSIVE HasToken(_, _)
HasToken(s, lbl) ==
  IF indexOf(s, COMMA, 0) = -1 THEN trim(s) = lbl
  ELSE \/ trim(substring(s, 0, indexOf(s, COMMA, 0))) = lbl
       \/ HasToken(substringFrom(s, indexOf(s, COMMA, 0) + 1), lbl)

\* What the periodic part has printed, the raw dump apart.
Shown == IF out # <<>> /\ out[1] = "raw" THEN Tail(out) ELSE out

\* C14: a periodic sampling cycle has exactly one of four outcomes: a reply
\* that parses as a reading prints the reading, with SG or with "n/a" when
\* the reply carries no SG label; an acknowledgement (*OK once trimmed)
\* prints nothing; an empty reply prints the timeout report; any other
\* reply is printed as uninterpretable.
C14_SamplingOutcomes ==
  pc = "shown" =>
    Shown = IF reading.ok
              THEN <<"reading",
                     IF HasToken(pLine, LblSG) THEN "sg" ELSE "sgNA">>
            ELSE IF startsWith(trim(pLine), AckOK) THEN <<>>
            ELSE IF pLine = <<>> THEN <<"readTimeout">>
            ELSE <<"uninterpretable">>

\* The step is the return of an ezoQuery call.
QueryReturn == pc = "query" /\ pc' # "query"

\* C15: every query echoes the command it sends and then the reply or the
\* timeout marker, whatever printRaw is; the raw dump is printed only by the
\* periodic part, first thing after its query, and only when printRaw is
\* true: never for a query of the operator or of the configuration.
C15_EchoAndRaw ==
  /\ [][(sent' # <<>>) <=> (out' = <<"send">>)]_vars
  /\ [][(sent' # <<>>) => (pc' = "query" /\ Len(sent') = 1)]_vars
  /\ [][QueryReturn =>
          (out' = <<"timeoutMark">> \/ out' = <<"reply">>)]_vars
  /\ [](\A i \in DOMAIN out :
          out[i] = "raw" => (i = 1 /\ pc = "shown" /\ printRaw))
  /\ []((pc = "shown" /\ printRaw) => (out # <<>> /\ out[1] = "raw"))

\* The periodic part has dumped the raw reply and printed the reading.
C15_Witness ==
  /\ pc = "shown"
  /\ printRaw
  /\ out = <<"raw", "reading", "sgNA">>

\* The time of the query in progress is up.
TimeUp == ~ULt(USub(now, q.start), q.timeoutMs)

\* C16: every query call ends: whatever the sensor delivers, a stream with
\* no carriage-return included, ezoReadLine returns when it reads the first
\* carriage-return or when the timeout has passed since the call began, and
\* never runs longer; the program then goes on where the query was called.
C16_QueryEnds ==
  /\ <>(pc # "query")
  /\ [](pc = "query" => ~ULt(q.timeoutMs, USub(now, q.start)))
  /\ [][(pc = "query" /\ TimeUp) => QueryReturn]_vars
  /\ [][(pc = "query" /\ ~TimeUp /\ ezoRx' # ezoRx
          /\ indexOf(ezoRx, CR, 0) # -1) => (QueryReturn /\ sawCR')]_vars
  /\ [][QueryReturn => ((sawCR' \/ TimeUp) /\ pc' = q.ret /\ ~awaiting')]_vars

\* A query has ended by timeout after three bursts without carriage-return.
C16_Witness ==
  /\ Returned
  /\ ~sawCR
  /\ Len(rxSeen) >= 6
  /\ pc = "interpret"
  /\ now = UAdd(lastReadMs, 900)

\* parseEcLine has been called on a line that is neither empty nor an
\* acknowledgement.
ParsedReply ==
  /\ Parsed
  /\ trim(pLine) # <<>>
  /\ ~startsWith(trim(pLine), AckOK)

\* Some comma-delimited token of the trimmed line is a label.
LabelAsToken == \E lbl \in Labels : HasToken(trim(pLine), lbl)

\* The text of a label occurs somewhere in the trimmed line.
LabelAsText == \E lbl \in Labels : indexOfStr(trim(pLine), lbl) # -1

\* The reading of a line without comma, parsed as unlabelled.
SingleValue ==
  [ok |-> TRUE, ec |-> toFloat(trim(pLine)), tds |-> 0, sal |-> 0, sg |-> 0]

\* C17 as stated: the labelled format is chosen exactly when some token of
\* the trimmed line is a label; a line no token of which is a label is
\* parsed as unlabelled, and with no comma it is a reading whose EC is the
\* number the line parses to.
C17_LabelTokens ==
  ParsedReply =>
    /\ reading = IF LabelAsToken
                   THEN parseLabeled(trim(pLine), ZeroReading)
                   ELSE parseUnlabeled(trim(pLine), ZeroReading)
    /\ (~LabelAsToken /\ indexOf(pLine, COMMA, 0) = -1) =>
         reading = SingleValue

\* C17, amended: the labelled format is chosen exactly when the text of a
\* label occurs anywhere in the trimmed line; a line that holds a label's
\* letters only inside longer tokens is parsed as labelled and is not a
\* reading; a line without any label text is parsed as unlabelled, and with
\* no comma it is a reading whose EC is the number the line parses to.
C17_LabelText ==
  ParsedReply =>
    /\ reading = IF LabelAsText
                   THEN parseLabeled(trim(pLine), ZeroReading)
                   ELSE parseUnlabeled(trim(pLine), ZeroReading)
    /\ (LabelAsText /\ ~LabelAsToken) => ~reading.ok
    /\ (~LabelAsText /\ indexOf(pLine, COMMA, 0) = -1) =>
         reading = SingleValue

\* The one-token line "XEC" has been parsed: it is not a reading.
C17_Witness ==
  /\ Parsed
  /\ inToks = << S(<<"X", "E", "C">>) >>
  /\ LabelAsText
  /\ ~LabelAsToken
  /\ ~reading.ok

\* The step dispatches a command of verb with argument (in lower case) in args.
VerbStep(verb, args) ==
  /\ cmdLog' # <<>>
  /\ splitCmd(cmdLog'[1]).a = verb
  /\ toLowerCase(splitCmd(cmdLog'[1]).rest) \in args

\* The step dispatches a "period" command with a value other than 0.
PeriodStep ==
  /\ cmdLog' # <<>>
  /\ splitCmd(cmdLog'[1]).a = S(<<"p", "e", "r", "i", "o", "d">>)
  /\ toIntUL(splitCmd(cmdLog'[1]).rest) # 0

\* C18: streamingEnabled changes only when "stream on|off" is dispatched,
\* readPeriodMs only on an accepted "period", printRaw only on "raw on|off",
\* lastReadMs only when the periodic part issues its query; every other
\* command, every query and every reply leaves the four unchanged.
C18_SessionFrame ==
  [][/\ streamingEnabled' # streamingEnabled
          => VerbStep(S(<<"s", "t", "r", "e", "a", "m">>), { S(<<"o", "n">>), S(<<"o", "f", "f">>) })
     /\ readPeriodMs' # readPeriodMs => PeriodStep
     /\ printRaw' # printRaw => VerbStep(S(<<"r", "a", "w">>), { S(<<"o", "n">>), S(<<"o", "f", "f">>) })
     /\ lastReadMs' # lastReadMs => PeriodicQuery]_vars

\* A query of the operator has returned with none of the four at its
\* initial value.
C18_Witness ==
  /\ Returned
  /\ pc = "sample"
  /\ streamingEnabled
  /\ printRaw
  /\ readPeriodMs = 500
  /\ lastReadMs # 0

\* The four configuration queries, in their documented order.
ConfigOrder == << S(<<"O", ",", "E", "C", ",", "1">>), S(<<"O", ",", "T", "D", "S", ",", "0">>), S(<<"O", ",", "S", "A", "L", ",", "0">>), S(<<"O", ",", "S", "G", ",", "0">>) >>

\* The step sends one of the configuration queries.
ConfigSend ==
  /\ sent' # <<>>
  /\ \E i \in DOMAIN ConfigOrder : sent'[1] = ezoSend(ConfigOrder[i])

\* C19: the four configuration queries are issued in order, each exactly
\* once, before any command is dispatched and before any periodic query;
\* outputsConfigured is false until the fourth has returned, true afterwards
\* whatever the sensor replied, and never false again.
C19_ConfigOnce ==
  /\ [][ConfigSend =>
          /\ ~outputsConfigured
          /\ cfgStep' = cfgStep + 1
          /\ cfgStep' \in DOMAIN ConfigOrder
          /\ sent'[1] = ezoSend(ConfigOrder[cfgStep'])]_vars
  /\ [][cfgStep' # cfgStep => ConfigSend]_vars
  /\ [][outputsConfigured => outputsConfigured']_vars
  /\ [][(cmdLog' # <<>> \/ PeriodicQuery) => outputsConfigured]_vars
  /\ [](outputsConfigured <=>
          (cfgStep = Len(ConfigOrder)
           /\ pc \notin {"setup", "cfgSetup", "cfgLoop"}
           /\ ~(pc = "query" /\ q.ret \in {"cfgSetup", "cfgLoop"})))
  /\ [](~outputsConfigured =>
          (cmdLog = <<>> /\ q.ret \notin {"sample", "interpret"}
           /\ lastReadMs = 0))

\* The configuration has just ended, its four queries having timed out.
C19_Witness ==
  /\ outputsConfigured
  /\ out = <<"config">>
  /\ cfgStep = 4
  /\ now = 5000
  /\ pc = "loop"

\* C20: the text a query returns consists only of bytes the sensor sent in
\* response to its command: when the command is sent no earlier bytes wait
\* in the receive buffer, and a query that returns before the sensor has
\* sent anything more returns nothing.
C20_ReplyPairing ==
  /\ []((pc = "query" /\ sent # <<>>) => ezoRx = <<>>)
  /\ [][(pc = "query" /\ sent # <<>> /\ QueryReturn) => resp' = <<>>]_vars

(***************************************************************************)
(* Properties of the command interpreter on sequences of lines.            *)
(***************************************************************************)
\* The channels of verb "o", as the operator names them.
Channels == { S(<<"e", "c">>), S(<<"t", "d", "s">>), S(<<"s", "a", "l">>), S(<<"s", "g">>) }

\* cmd is the accepted command "o <ch> <onoff>".
IsOutputCmd(cmd, ch, onoff) ==
  /\ splitCmd(cmd).a = S(<<"o">>)
  /\ splitCmd(splitCmd(cmd).rest).a = ch
  /\ toLowerCase(splitCmd(splitCmd(cmd).rest).rest) = onoff

\* The wire command that sets the output of channel ch to flag.
OutputWire(ch, flag) == S(<<"O", ",">>) \o ch \o S(<<",">>) \o flag \o <<CR>>

\* The step dispatches an accepted "o <ch> on" or "o <ch> off".
OutputStep ==
  /\ Len(cmdLog') = Len(cmdLog) + 1
  /\ \E ch \in Channels, onoff \in { S(<<"o", "n">>), S(<<"o", "f", "f">>) } :
       IsOutputCmd(cmdLog'[Len(cmdLog')], ch, onoff)

\* C11: for every channel, "o <ch> on" followed by "o <ch> off" issues
\* exactly two wire commands, O,<ch>,1 and then O,<ch>,0 for that channel,
\* and the session state is what it was before the pair.
C11_OutputRoundTrip ==
  /\ [](\A ch \in Channels :
         (/\ Len(cmdLog) = 2
          /\ IsOutputCmd(cmdLog[1], ch, S(<<"o", "n">>))
          /\ IsOutputCmd(cmdLog[2], ch, S(<<"o", "f", "f">>)))
           => sent = << OutputWire(ch, S(<<"1">>)), OutputWire(ch, S(<<"0">>)) >>)
  /\ [][OutputStep => session' = session]_vars

\* "o tds on" and "o tds off" have been dispatched in a row.
C11_Witness ==
  /\ Len(cmdLog) = 2
  /\ IsOutputCmd(cmdLog[1], S(<<"t", "d", "s">>), S(<<"o", "n">>))
  /\ IsOutputCmd(cmdLog[2], S(<<"t", "d", "s">>), S(<<"o", "f", "f">>))
  /\ sent = << OutputWire(S(<<"t", "d", "s">>), S(<<"1">>)), OutputWire(S(<<"t", "d", "s">>), S(<<"0">>)) >>
  /\ streamingEnabled /\ printRaw /\ readPeriodMs = 500

\* cmd is the command "stream <onoff>".
IsStreamCmd(cmd, onoff) ==
  /\ splitCmd(cmd).a = S(<<"s", "t", "r", "e", "a", "m">>)
  /\ toLowerCase(splitCmd(cmd).rest) = onoff

\* The step dispatches "stream <onoff>".
StreamStep(onoff) ==
  /\ Len(cmdLog') = Len(cmdLog) + 1
  /\ IsStreamCmd(cmdLog'[Len(cmdLog')], onoff)

\* The step dispatches "stream <onoff>" right after another "stream <onoff>".
StreamAgain(onoff) ==
  /\ StreamStep(onoff)
  /\ cmdLog # <<>>
  /\ IsStreamCmd(cmdLog[Len(cmdLog)], onoff)

\* C12: "stream off" is idempotent: with streamingEnabled already false it
\* leaves the session state unchanged, reports OFF and sends nothing; and a
\* second "stream off" (or "stream on") in a row leaves the state the first
\* one left.
C12_StreamIdempotent ==
  /\ [][(StreamStep(S(<<"o", "f", "f">>)) /\ ~streamingEnabled) =>
          /\ session' = session
          /\ out' = Append(out, "streamOff")
          /\ sent' = sent]_vars
  /\ [][StreamAgain(S(<<"o", "f", "f">>)) =>
          /\ session' = session
          /\ ~streamingEnabled'
          /\ out' = Append(out, "streamOff")
          /\ sent' = sent]_vars
  /\ [][StreamAgain(S(<<"o", "n">>)) =>
          /\ session' = session
          /\ streamingEnabled'
          /\ out' = Append(out, "streamOn")
          /\ sent' = sent]_vars

\* "stream off" has been dispatched twice in a row, streaming being on before.
C12_Witness ==
  /\ Len(cmdLog) = 2
  /\ IsStreamCmd(cmdLog[1], S(<<"o", "f", "f">>))
  /\ IsStreamCmd(cmdLog[2], S(<<"o", "f", "f">>))
  /\ out = <<"streamOff", "streamOff">>
  /\ sent = <<>>
  /\ ~streamingEnabled
  /\ printRaw

====
